---- MODULE Spec2Model ----
(***************************************************************************)
(* analyze-sgf: the record/engine bridge.                                  *)
(*                                                                         *)
(* The library functions of sgfconv.js and katagoconv.js are pure.  Each   *)
(* behaviour of Spec is one call: Init draws the operation and its         *)
(* arguments, the operation's action computes the result as the code does. *)
(*                                                                         *)
(* A JavaScript string is a sequence of UTF-16 code units (naturals).  A   *)
(* JavaScript number that may be NaN is a record [nan, n].                 *)
(*                                                                         *)
(* A call of main runs the command line over a batch of paths: tasks holds *)
(* the position of each path's async task, sent the requests written to    *)
(* the engine processes, disk the files written, console what is logged or *)
(* printed, and exitedBy the task whose engine made the exit handler call  *)
(* process.exit(1) (0 while the process runs).                             *)
(***************************************************************************)
EXTENDS Integers, Sequences, FiniteSets, TLC

VARIABLES call, ret, pc, tasks, sent, disk, console, exitedBy

vars == <<call, ret, pc, tasks, sent, disk, console, exitedBy>>

(***************************************************************************)
(* Characters and strings                                                  *)
(***************************************************************************)

\* The printable ASCII characters, code 32 first (code 96 by its name).
AsciiTable ==
  << " ", "!", "\"", "#", "$", "%", "&", "'", "(", ")", "*", "+", ",", "-",
     ".", "/", "0", "1", "2", "3", "4", "5", "6", "7", "8", "9", ":", ";",
     "<", "=", ">", "?", "@", "A", "B", "C", "D", "E", "F", "G", "H", "I",
     "J", "K", "L", "M", "N", "O", "P", "Q", "R", "S", "T", "U", "V", "W",
     "X", "Y", "Z", "[", "\\", "]", "^", "_", "grave", "a", "b", "c", "d", "e",
     "f", "g", "h", "i", "j", "k", "l", "m", "n", "o", "p", "q", "r", "s",
     "t", "u", "v", "w", "x", "y", "z", "{", "|", "}", "~" >>

\* The code unit of a one-character literal.
Ch(c) == 31 + (CHOOSE i \in 1..Len(AsciiTable) : AsciiTable[i] = c)

\* The string whose characters are the given one-character literals.
Str(lit) == [i \in 1..Len(lit) |-> Ch(lit[i])] \o <<>>

chUpA == Ch("A")
chUpB == Ch("B")
chUpI == Ch("I")
chUpJ == Ch("J")
chUpW == Ch("W")
chUpZ == Ch("Z")
chLoA == Ch("a")
chLoT == Ch("t")
chLoZ == Ch("z")
chZero == Ch("0")
chNine == Ch("9")
chMinus == Ch("-")
chPlus == Ch("+")
chSpace == Ch(" ")
chDot == Ch(".")
chSemi == Ch(";")
chOpen == Ch("[")
chClose == Ch("]")
chBackslash == Ch("\\")
chUnderscore == Ch("_")

\* JavaScript numbers that may be NaN.
Num(n) == [nan |-> FALSE, n |-> n]
NaN == [nan |-> TRUE, n |-> 0]

\* x + k and k - x of JavaScript, k an integer.
NumPlus(x, k) == IF x.nan THEN NaN ELSE Num(x.n + k)
NumRsub(k, x) == IF x.nan THEN NaN ELSE Num(k - x.n)

\* String.prototype.substring(from, to), 0-based, to exclusive.
Clamp(i, n) == IF i < 0 THEN 0 ELSE IF i > n THEN n ELSE i
Substring(s, from, to) ==
  LET a == Clamp(from, Len(s))
      b == Clamp(to, Len(s))
      lo == IF a < b THEN a ELSE b
      hi == IF a < b THEN b ELSE a
  IN  SubSeq(s, lo + 1, hi)

\* String.prototype.toUpperCase / toLowerCase on ASCII text.
UpperChar(c) == IF c >= chLoA /\ c <= chLoZ THEN c - 32 ELSE c
LowerChar(c) == IF c >= chUpA /\ c <= chUpZ THEN c + 32 ELSE c
toUpperCase(s) == [i \in 1..Len(s) |-> UpperChar(s[i])]

\* String.prototype.charCodeAt(i), 0-based: NaN past the end.
charCodeAt(s, i) == IF i >= 0 /\ i < Len(s) THEN Num(s[i + 1]) ELSE NaN

\* String.fromCharCode(x): ToUint16 of x, NaN giving code unit 0.
fromCharCode(x) == IF x.nan THEN <<0>> ELSE << x.n % 65536 >>

\* Number.prototype.toString() of an integer or NaN.
RECURSIVE Digits(_)
Digits(n) == IF n < 10 THEN << chZero + n >>
             ELSE Append(Digits(n \div 10), chZero + (n % 10))
NumToString(x) ==
  IF x.nan THEN Str(<<"N", "a", "N">>)
  ELSE IF x.n < 0 THEN <<chMinus>> \o Digits(0 - x.n)
  ELSE Digits(x.n)

IsDigit(c) == c >= chZero /\ c <= chNine

\* parseInt(s, 10): leading blanks, an optional sign, then the longest run
\* of digits; NaN when there is no digit.
RECURSIVE SkipBlanks(_, _)
SkipBlanks(s, i) ==
  IF i <= Len(s) /\ s[i] = chSpace THEN SkipBlanks(s, i + 1) ELSE i
RECURSIVE DigitRun(_, _, _)
DigitRun(s, i, acc) ==
  IF i <= Len(s) /\ IsDigit(s[i])
  THEN DigitRun(s, i + 1, acc * 10 + (s[i] - chZero))
  ELSE acc
parseInt(s) ==
  LET i == SkipBlanks(s, 1)
      neg == i <= Len(s) /\ s[i] = chMinus
      j == IF i <= Len(s) /\ (s[i] = chMinus \/ s[i] = chPlus) THEN i + 1 ELSE i
  IN  IF j <= Len(s) /\ IsDigit(s[j])
      THEN Num(IF neg THEN 0 - DigitRun(s, j, 0) ELSE DigitRun(s, j, 0))
      ELSE NaN

\* The outcome of a call: a returned value or a thrown error.
Value(v) == [kind |-> "value", val |-> v]
Thrown(e) == [kind |-> e, val |-> <<>>]

(***************************************************************************)
(* sgfconv.js: coordinates                                                 *)
(***************************************************************************)

nextChar(c) == fromCharCode(Num(c + 1))
prevChar(c) == fromCharCode(Num(c - 1))

\* iaToJ1 without the step over 'I': columns from 'i' on keep their letter.
iaToJ1_KeepsI(value) ==
  LET v == toUpperCase(value)
      row == NumToString(NumPlus(charCodeAt(v, 1), 0 - 64))
  IN  IF Len(v) = 0 THEN Value(Str(<<"u","n","d","e","f","i","n","e","d">>) \o row)
      ELSE Value(<<v[1]>> \o row)

\* 'aa' => 'A1', 'ia' => 'J1'.  v[0] of an empty string is undefined:
\* the comparison is false and the concatenation gives "undefined...".
iaToJ1(value) ==
  LET v == toUpperCase(value)
      row == NumToString(NumPlus(charCodeAt(v, 1), 0 - 64))
  IN  IF Len(v) = 0 THEN Value(Str(<<"u","n","d","e","f","i","n","e","d">>) \o row)
      ELSE IF v[1] >= chUpI THEN Value(nextChar(v[1]) \o row)
      ELSE Value(<<v[1]>> \o row)

\* 'aa' => 'A19', 'bd' => 'B16'.  The function has one parameter.
iaToJ19(value) ==
  LET v == toUpperCase(value)
      row == NumToString(NumRsub(84, charCodeAt(v, 1)))
  IN  IF Len(v) = 0 THEN Value(Str(<<"u","n","d","e","f","i","n","e","d">>) \o row)
      ELSE IF v[1] >= chUpI THEN Value(nextChar(v[1]) \o row)
      ELSE Value(<<v[1]>> \o row)

\* 'A1' => 'aa'.  v[0].toLowerCase() of an empty string throws TypeError.
iaFromJ1(v) ==
  LET row == fromCharCode(NumPlus(parseInt(Substring(v, 1, Len(v))), 96))
  IN  IF Len(v) = 0 THEN Thrown("TypeError")
      ELSE IF v[1] >= chUpJ THEN Value(prevChar(LowerChar(v[1])) \o row)
      ELSE Value(<<LowerChar(v[1])>> \o row)

(***************************************************************************)
(* sgfconv.js: text of a sequence                                          *)
(***************************************************************************)

\* The least member of a set of indices, or -1 when there is none: what
\* search and indexOf return.
LeastOf(hits) ==
  IF hits = {} THEN -1 ELSE CHOOSE i \in hits : \A j \in hits : i <= j

\* At(s, i): the code unit at 0-based index i (callers stay in range).
At(s, i) == s[i + 1]

\* \w of a regular expression.
IsWordChar(c) ==
  \/ c >= chUpA /\ c <= chUpZ
  \/ c >= chLoA /\ c <= chLoZ
  \/ IsDigit(c)
  \/ c = chUnderscore

\* \b before the word character at 0-based index i.
WordStartsAt(s, i) == i = 0 \/ ~IsWordChar(At(s, i - 1))

\* The regular expressions of the file, by their text.
RxCloseBracket == "[^\\\\]\\]"
RxMove == "\\b[BW]\\[[^\\]]"
RxPassTT == "\\b[BW]\\[tt\\]"

\* s.search(/[^\\]\]/): a character that is no backslash, then ']'.
searchCloseBracket(s) ==
  LeastOf({i \in 0..(Len(s) - 2) :
             At(s, i) # chBackslash /\ At(s, i + 1) = chClose})

\* s.search(/\b[BW]\[[^\]]/): a colour, '[', and a character that is no ']'.
searchMove(s) ==
  LeastOf({i \in 0..(Len(s) - 3) :
             /\ WordStartsAt(s, i)
             /\ At(s, i) \in {chUpB, chUpW}
             /\ At(s, i + 1) = chOpen
             /\ At(s, i + 2) # chClose})

\* s.search(/\b[BW]\[tt\]/).
searchPassTT(s) ==
  LeastOf({i \in 0..(Len(s) - 5) :
             /\ WordStartsAt(s, i)
             /\ At(s, i) \in {chUpB, chUpW}
             /\ At(s, i + 1) = chOpen
             /\ At(s, i + 2) = chLoT
             /\ At(s, i + 3) = chLoT
             /\ At(s, i + 4) = chClose})

\* String.prototype.search(regex): the index of the first match, or -1.
search(s, regex) ==
  CASE regex = RxCloseBracket -> searchCloseBracket(s)
    [] regex = RxMove -> searchMove(s)
    [] regex = RxPassTT -> searchPassTT(s)

\* string.substring(start || 0).search(regex), shifted back by start.
indexOfRegex(string, regex, start) ==
  LET index == search(Substring(string, start, Len(string)), regex)
  IN  IF index >= 0 THEN index + start ELSE index

Max(a, b) == IF a > b THEN a ELSE b

\* addProperty splicing before the ']' it found instead of after it.
addProperty_BeforeBracket(seq, mark, index) ==
  LET start == indexOfRegex(seq, RxCloseBracket, Max(0, index - 1))
  IN  IF start # -1
      THEN Substring(seq, 0, start + 1) \o mark
           \o Substring(seq, start + 1, Len(seq))
      ELSE <<>>

\* ('(;W[aa];B[bb];W[cc])', 'XX', 7) => '(;W[aa];B[bb]XX;W[cc])'; '' when
\* the search finds nothing.
addProperty(seq, mark, index) ==
  LET start == indexOfRegex(seq, RxCloseBracket, Max(0, index - 1))
  IN  IF start # -1
      THEN Substring(seq, 0, start + 2) \o mark
           \o Substring(seq, start + 2, Len(seq))
      ELSE <<>>

toGoodNode(seq, index) == addProperty(seq, Str(<<"T","E","[","1","]">>), index)

toBadNode(seq, index) == addProperty(seq, Str(<<"B","M","[","1","]">>), index)

toBadHotSpot(seq, index) ==
  addProperty(seq, Str(<<"B","M","[","1","]","H","O","[","1","]">>), index)

\* comment.replace(/\]/g, '\\]')
RECURSIVE escapeCloseBrackets(_)
escapeCloseBrackets(t) ==
  IF t = <<>> THEN <<>>
  ELSE IF Head(t) = chClose
       THEN <<chBackslash, chClose>> \o escapeCloseBrackets(Tail(t))
       ELSE <<Head(t)>> \o escapeCloseBrackets(Tail(t))

\* The property addComment splices in.
commentProperty(comment) ==
  Str(<<"C", "[">>) \o escapeCloseBrackets(comment) \o <<chClose>>

addComment(seq, comment, index) ==
  addProperty(seq, commentProperty(comment), index)

\* Node data of the tokenizer: a function from property keys to value lists.
Has(data, key) == key \in DOMAIN data

\* { B: ['aa'] } => ';B[aa]'
mkNode(data) ==
  IF Has(data, "B") THEN Str(<<";", "B", "[">>) \o data["B"][1] \o <<chClose>>
  ELSE IF Has(data, "W")
       THEN Str(<<";", "W", "[">>) \o data["W"][1] \o <<chClose>>
       ELSE <<>>

\* The main line, as the chain of first children starting at the root.
RECURSIVE seqFromObject(_)
seqFromObject(chain) ==
  IF Len(chain) > 1
  THEN mkNode(Head(chain)) \o seqFromObject(Tail(chain))
  ELSE mkNode(Head(chain))

\* The value of the parameter sz of a call that leaves it out.
DefaultSz == 19

\* isNotPassingMove taking 'tt' for a pass on every board.
isNotPassingMove_AnySize(move, sz) ==
  search(move, RxMove) # -1 /\ search(move, RxPassTT) = -1

\* sz is a JavaScript number: NaN < 20 is false.
isNotPassingMove(move, sz) ==
  IF ~sz.nan /\ sz.n < 20
  THEN search(move, RxMove) # -1 /\ search(move, RxPassTT) = -1
  ELSE search(move, RxMove) # -1

\* s.split(sep) for a one-character separator.
RECURSIVE Split(_, _)
Split(s, sep) ==
  LET k == LeastOf({i \in 1..Len(s) : s[i] = sep})
  IN  IF k = -1 THEN <<s>>
      ELSE <<SubSeq(s, 1, k - 1)>> \o Split(SubSeq(s, k + 1, Len(s)), sep)

\* Array.prototype.filter is SelectSeq of Sequences.  filter((v) => v) on
\* strings drops the empty ones.
NonEmpty(v) == v # <<>>

hasPassingMoves(seq, sz) ==
  LET nodes == SelectSeq(Split(seq, chSemi), NonEmpty)
  IN  \E i \in 1..Len(nodes) : ~isNotPassingMove(nodes[i], sz)

(***************************************************************************)
(* katagoconv.js                                                           *)
(***************************************************************************)

\* parseFloat on decimal text: an optional sign, digits, an optional
\* fraction.  The value is n / 10^d with no trailing zero in the fraction.
RECURSIVE FracRun(_, _, _)
FracRun(s, i, acc) ==
  IF i <= Len(s) /\ IsDigit(s[i])
  THEN FracRun(s, i + 1, [n |-> acc.n * 10 + (s[i] - chZero), d |-> acc.d + 1])
  ELSE acc
RECURSIVE Normal(_)
Normal(f) == IF f.d > 0 /\ f.n % 10 = 0
             THEN Normal([n |-> f.n \div 10, d |-> f.d - 1]) ELSE f
RECURSIVE DigitEnd(_, _)
DigitEnd(s, i) == IF i <= Len(s) /\ IsDigit(s[i]) THEN DigitEnd(s, i + 1) ELSE i
parseFloat(s) ==
  LET i == SkipBlanks(s, 1)
      neg == i <= Len(s) /\ s[i] = chMinus
      j == IF i <= Len(s) /\ (s[i] = chMinus \/ s[i] = chPlus) THEN i + 1 ELSE i
      k == DigitEnd(s, j)
      whole == [n |-> DigitRun(s, j, 0), d |-> 0]
      hasFrac == k <= Len(s) /\ s[k] = chDot
      all == IF hasFrac THEN Normal(FracRun(s, k + 1, whole)) ELSE whole
      anyDigit == k > j \/ (hasFrac /\ DigitEnd(s, k + 1) > k + 1)
  IN  IF ~anyDigit THEN [nan |-> TRUE, n |-> 0, d |-> 0]
      ELSE [nan |-> FALSE, n |-> IF neg THEN 0 - all.n ELSE all.n, d |-> all.d]

\* root => [["B","A1"],["B","B2"],["W","A2"]]
initialStonesFromRoot(root) ==
  LET ab == IF Has(root, "AB") THEN root["AB"] ELSE <<>>
      aw == IF Has(root, "AW") THEN root["AW"] ELSE <<>>
  IN  [i \in 1..Len(ab) |-> <<chUpB, iaToJ1(ab[i]).val>>]
      \o [i \in 1..Len(aw) |-> <<chUpW, iaToJ1(aw[i]).val>>]

\* ';W[po];B[hm];W[]' => [["W","Q15"],["B","H13"]]
seqToKataGoMoves(seq, sz) ==
  LET NotPass(move) == isNotPassingMove(move, sz)
      kept == SelectSeq(Split(seq, chSemi), NotPass)
  IN  [k \in 1..Len(kept) |->
        LET i == search(kept[k], RxMove)
        IN  <<At(kept[k], i), iaToJ1(Substring(kept[k], i + 2, i + 4)).val>>] \o <<>>

\* makeRealTurnNumbersMap numbering the moves from 0.
makeRealTurnNumbersMap_FromZero(seq) ==
  LET nodes == SelectSeq(Split(seq, chSemi), NonEmpty)
      marked == [i \in 1..Len(nodes) |->
                  IF isNotPassingMove(nodes[i], Num(DefaultSz)) THEN i - 1 ELSE -1]
      IsTurn(v) == v # -1
  IN  <<0>> \o SelectSeq(marked, IsTurn)

\* The map from KataGo turn numbers to real turn numbers; isNotPassingMove
\* is called without a board size.
makeRealTurnNumbersMap(seq) ==
  LET nodes == SelectSeq(Split(seq, chSemi), NonEmpty)
      marked == [i \in 1..Len(nodes) |->
                  IF isNotPassingMove(nodes[i], Num(DefaultSz)) THEN i ELSE -1]
      IsTurn(v) == v # -1
  IN  <<0>> \o SelectSeq(marked, IsTurn)

\* indexOf never looking at index 0.
indexOf_SkipsFirst(list, x) ==
  LeastOf({i \in 1..(Len(list) - 1) : list[i + 1] = x})

\* array.indexOf(x): the first 0-based index holding x, or -1.
indexOf(list, x) ==
  LeastOf({i \in 0..(Len(list) - 1) : list[i + 1] = x})

\* keys counting from 1.
keys_FromOne(n) == [i \in 1..n |-> i]

\* [...Array(n).keys()]
keys(n) == [i \in 1..n |-> i - 1] \o <<>>

\* The JSON query for KataGo's analysis engine.  chain is the main line the
\* tokenizer returns for sgf (the root first), now the value of Date.now().
sgfToKataGoAnalysisQuery(chain, analysisOpts, now) ==
  LET root == Head(chain)
      seq == seqFromObject(chain)
      q1 == IF Has(root, "KM")
            THEN ("komi" :> parseFloat(root["KM"][1])) @@ analysisOpts
            ELSE analysisOpts
      q2 == IF Has(root, "PL")
            THEN ("initialPlayer" :> root["PL"][1]) @@ q1
            ELSE q1
      sz == IF Has(root, "SZ") THEN parseInt(root["SZ"][1]) ELSE Num(0)
      moves == seqToKataGoMoves(seq, sz)
      q3 == ("id" :> (Str(<<"9","b","e","a","c","h","-">>) \o Digits(now)))
            @@ ("initialStones" :> initialStonesFromRoot(root))
            @@ ("moves" :> moves)
            @@ q2
      turns ==
        IF ~Has(q3, "analyzeTurns") THEN keys(Len(moves) + 1)
        ELSE IF hasPassingMoves(seq, Num(DefaultSz))
        THEN LET realTurnNumbers == makeRealTurnNumbersMap(seq)
                 mapped == [i \in 1..Len(q3["analyzeTurns"]) |->
                             indexOf(realTurnNumbers, q3["analyzeTurns"][i])]
                 Found(turn) == turn # -1
             IN  SelectSeq(mapped, Found)
        ELSE q3["analyzeTurns"]
  IN  ("analyzeTurns" :> turns) @@ q3

(***************************************************************************)
(* katagoconv.js: responses                                                *)
(***************************************************************************)

chNewline == 10
chColon == Ch(":")

\* list.join(sep) for a one-character separator.
RECURSIVE Join(_, _)
Join(list, sep) ==
  IF Len(list) = 0 THEN <<>>
  ELSE IF Len(list) = 1 THEN list[1]
  ELSE list[1] \o <<sep>> \o Join(Tail(list), sep)

\* The 0-based indices where pat occurs in s.
Occurrences(s, pat) ==
  {i \in 0..(Len(s) - Len(pat)) : SubSeq(s, i + 1, i + Len(pat)) = pat}
GreatestOf(hits) ==
  IF hits = {} THEN -1 ELSE CHOOSE i \in hits : \A j \in hits : i >= j

\* Decimal numbers [nan, n, d] of value n / 10^d: the a - b, Math.abs and
\* a > b of JavaScript.
RECURSIVE Pow10(_)
Pow10(k) == IF k = 0 THEN 1 ELSE 10 * Pow10(k - 1)
DecNaN == [nan |-> TRUE, n |-> 0, d |-> 0]
\* p / 100 for an integer percentage p.
Pct(p) == [nan |-> FALSE, n |-> p, d |-> 2]
DecSub(a, b) ==
  IF a.nan \/ b.nan THEN DecNaN
  ELSE LET d == Max(a.d, b.d)
       IN  [nan |-> FALSE,
            n |-> a.n * Pow10(d - a.d) - b.n * Pow10(d - b.d), d |-> d]
\* Math.abs left out.
DecAbs_Signed(a) == a

DecAbs(a) == IF a.nan \/ a.n >= 0 THEN a ELSE [a EXCEPT !.n = 0 - a.n]
DecGreater(a, b) ==
  /\ ~a.nan
  /\ ~b.nan
  /\ LET d == Max(a.d, b.d)
     IN  a.n * Pow10(d - a.d) > b.n * Pow10(d - b.d)

QRootInfo == Str(<<"\"","r","o","o","t","I","n","f","o","\"">>)
QWinrate == Str(<<"\"","w","i","n","r","a","t","e","\"",":">>)
QTurnNumber == Str(<<"\"","t","u","r","n","N","u","m","b","e","r","\"",":">>)

\* replace(/.*"rootInfo"/g, '{"rootInfo"'): on every line, the text up to
\* the last "rootInfo" becomes '{"rootInfo"'.
replaceRootInfoLine(l) ==
  LET k == GreatestOf(Occurrences(l, QRootInfo))
  IN  IF k = -1 THEN l
      ELSE <<Ch("{")>> \o QRootInfo \o Substring(l, k + Len(QRootInfo), Len(l))
replaceRootInfo(responses) ==
  LET lines == Split(responses, chNewline)
  IN  Join([i \in 1..Len(lines) |-> replaceRootInfoLine(lines[i])], chNewline)

\* JSON.parse(l), as far as the reducer reads the object: turnNumber and
\* rootInfo.winrate; a field the line lacks is undefined (NaN in its use).
JSONparse(l) ==
  LET w == LeastOf(Occurrences(l, QWinrate))
      t == LeastOf(Occurrences(l, QTurnNumber))
  IN  [ turnNumber |-> IF t = -1 THEN NaN
                       ELSE parseInt(Substring(l, t + Len(QTurnNumber), Len(l))),
        rootInfo |-> [winrate |-> IF w = -1 THEN DecNaN
                                  ELSE parseFloat(Substring(l, w + Len(QWinrate), Len(l)))] ]

\* sort((a, b) => a.turnNumber - b.turnNumber): stable, ascending.
RECURSIVE insertByTurnNumber(_, _)
insertByTurnNumber(sorted, r) ==
  IF Len(sorted) = 0 THEN <<r>>
  ELSE IF sorted[Len(sorted)].turnNumber.n <= r.turnNumber.n THEN Append(sorted, r)
  ELSE Append(insertByTurnNumber(SubSeq(sorted, 1, Len(sorted) - 1), r),
              sorted[Len(sorted)])
RECURSIVE sortByTurnNumber(_)
sortByTurnNumber(list) ==
  IF Len(list) = 0 THEN <<>>
  ELSE insertByTurnNumber(sortByTurnNumber(SubSeq(list, 1, Len(list) - 1)),
                          list[Len(list)])

\* The reducer's step flagging a difference that only reaches winrateDrop.
dropStep_AtThreshold(acc, cur, winrateDrop) ==
  LET diff == DecAbs(DecSub(acc.winrate, cur.rootInfo.winrate))
      hit == /\ acc.seen
             /\ acc.turnNumber = cur.turnNumber.n - 1
             /\ ~DecGreater(winrateDrop, diff)
  IN  [ analyzeTurns |-> IF hit THEN Append(acc.analyzeTurns, acc.turnNumber)
                         ELSE acc.analyzeTurns,
        seen |-> TRUE,
        winrate |-> cur.rootInfo.winrate,
        turnNumber |-> cur.turnNumber.n ]

\* The reducer's step on acc; seen is false while acc.turnNumber is
\* undefined.
dropStep(acc, cur, winrateDrop) ==
  LET hit == /\ acc.seen
             /\ acc.turnNumber = cur.turnNumber.n - 1
             /\ DecGreater(DecAbs(DecSub(acc.winrate, cur.rootInfo.winrate)),
                           winrateDrop)
  IN  [ analyzeTurns |-> IF hit THEN Append(acc.analyzeTurns, acc.turnNumber)
                         ELSE acc.analyzeTurns,
        seen |-> TRUE,
        winrate |-> cur.rootInfo.winrate,
        turnNumber |-> cur.turnNumber.n ]
RECURSIVE dropReduce(_, _, _)
dropReduce(list, acc, winrateDrop) ==
  IF Len(list) = 0 THEN acc
  ELSE dropReduce(Tail(list), dropStep(acc, Head(list), winrateDrop), winrateDrop)

\* Returns array of (turnNumber - 1) whose win rate drops by more than the
\* given parameter.
winrateDropTurnsFromKataGoResponses(responses, winrateDrop) ==
  LET lines == SelectSeq(Split(replaceRootInfo(responses), chNewline), NonEmpty)
      parsed == [i \in 1..Len(lines) |-> JSONparse(lines[i])]
      start == [analyzeTurns |-> <<>>, seen |-> FALSE,
                winrate |-> DecNaN, turnNumber |-> 0]
  IN  dropReduce(sortByTurnNumber(parsed), start, winrateDrop).analyzeTurns

\* getTurnNumber cutting at the first ':' of the line.
getTurnNumber_FirstColon(a) ==
  LET k == LeastOf({i \in 0..(Len(a) - 1) : a[i + 1] = chColon})
  IN  parseInt(IF k = -1 THEN a ELSE Substring(a, k + 1, Len(a)))

\* parseInt(a.replace(/.*:/, ''), 10): the number after the last ':'.
getTurnNumber(a) ==
  LET k == GreatestOf({i \in 0..(Len(a) - 1) : a[i + 1] = chColon})
  IN  parseInt(IF k = -1 THEN a ELSE Substring(a, k + 1, Len(a)))

\* Overwrites revisited to original.  indexOf never finds NaN.
mergeKataGoResponses(original, revisited, turns) ==
  LET Kept(l) == LET t == getTurnNumber(l)
                 IN  t.nan \/ indexOf(turns, t.n) = -1
  IN  Join(SelectSeq(Split(original, chNewline), Kept), chNewline) \o revisited

(***************************************************************************)
(* The command line: main, revisitKataGo, saveAnalyzed, kataGoAnalyze      *)
(***************************************************************************)

\* opts.sgf.minWinrateDropForVariations, a percentage.
MinWinrateDropForVariations == 5

ErrorMarker == Str(<<"{","\"","e","r","r","o","r","\"",":","\"">>)

\* responses.replace('\n', ''): the first line break taken out.
replaceFirstNewline(responses) ==
  LET k == LeastOf({i \in 0..(Len(responses) - 1) : responses[i + 1] = chNewline})
  IN  IF k = -1 THEN responses
      ELSE Substring(responses, 0, k) \o Substring(responses, k + 1, Len(responses))

\* saveAnalyzed writing whatever it is handed.
saveAnalyzed_NoChecks(responses, saveResponse) ==
  [ thrown |-> FALSE, message |-> <<>>,
    files |-> (IF saveResponse THEN {"json"} ELSE {}) \cup {"sgf"},
    report |-> TRUE ]

\* Saves SGF file and JSON responses from KataGo: the error thrown, or the
\* files written and whether the report is printed.  GameTree builds its
\* tree and report from the responses it is given.
saveAnalyzed(responses, saveResponse) ==
  IF responses = <<>>
  THEN [ thrown |-> TRUE,
         message |-> Str(<<"N","o"," ","r","e","s","p","o","n","s","e">>),
         files |-> {}, report |-> FALSE ]
  ELSE IF 0 \in Occurrences(responses, ErrorMarker)
  THEN [ thrown |-> TRUE, message |-> replaceFirstNewline(responses),
         files |-> {}, report |-> FALSE ]
  ELSE [ thrown |-> FALSE, message |-> <<>>,
         files |-> (IF saveResponse THEN {"json"} ELSE {}) \cup {"sgf"},
         report |-> TRUE ]

\* An array is truthy whatever its length.
noTurnsToRevisit_Truthy(analyzeTurns) == FALSE

\* !queryRe.analyzeTurns.length
noTurnsToRevisit(analyzeTurns) == Len(analyzeTurns) = 0

\* Whether the reducer of winrateDropTurnsFromKataGoResponses reads
\* rootInfo.winrate of an object without rootInfo (a TypeError).
dropTurnsThrows(responses) ==
  LET lines == SelectSeq(Split(replaceRootInfo(responses), chNewline), NonEmpty)
  IN  \E i \in 1..Len(lines) : Occurrences(lines[i], QRootInfo) = {}

\* revisitKataGo up to its await: the revisit query and what it does next.
revisitKataGo(responses, query, revisit) ==
  IF dropTurnsThrows(responses)
  THEN [next |-> "throw", queryRe |-> query]
  ELSE LET turns == winrateDropTurnsFromKataGoResponses(
                      responses, Pct(MinWinrateDropForVariations))
           queryRe == ("maxVisits" :> revisit) @@ ("analyzeTurns" :> turns) @@ query
       IN  [next |-> IF noTurnsToRevisit(turns) THEN "null" ELSE "analyze",
            queryRe |-> queryRe]

(***************************************************************************)
(* game-report.js                                                          *)
(*                                                                         *)
(* A drop is a record [has, n]: undefined when has is false, else n        *)
(* hundredths (0.03 is 3).  A threshold is the percentage of the options.  *)
(***************************************************************************)

Undefined == [has |-> FALSE, n |-> 0]
Drop(n) == [has |-> TRUE, n |-> n]

\* x < y and x >= y of a drop and a number: false of undefined.
DropLess(x, y) == x.has /\ x.n < y
DropAtLeast(x, y) == x.has /\ x.n >= y

\* A drop used as a condition: undefined and 0 are falsy.
Truthy(x) == x.has /\ x.n # 0

\* gametree.nodes.map((node, index) => ({index, pl, winrateDrop, scoreDrop}))
dropsOf(nodes) ==
  [i \in 1..Len(nodes) |->
    [index |-> i - 1, pl |-> nodes[i].pl,
     winrateDrop |-> nodes[i].winrateDrop, scoreDrop |-> nodes[i].scoreDrop]] \o <<>>

\* sort((a, b) => b[key] - a[key]): stable, descending.
RECURSIVE insertByDrop(_, _, _)
insertByDrop(sorted, m, key) ==
  IF Len(sorted) = 0 THEN <<m>>
  ELSE IF sorted[Len(sorted)][key].n >= m[key].n THEN Append(sorted, m)
  ELSE Append(insertByDrop(SubSeq(sorted, 1, Len(sorted) - 1), m, key),
              sorted[Len(sorted)])
RECURSIVE sortByDrop(_, _)
sortByDrop(list, key) ==
  IF Len(list) = 0 THEN <<>>
  ELSE insertByDrop(sortByDrop(SubSeq(list, 1, Len(list) - 1), key),
                    list[Len(list)], key)

\* slice(0, 10)
sliceTen(list) == SubSeq(list, 1, IF Len(list) < 10 THEN Len(list) ELSE 10)

\* makeGoodBads taking a drop at the bad-move threshold for a fair move.
makeGoodBads_BadAbove(pl, drops, stat) ==
  LET Good(n) == n.pl = pl /\ DropLess(n.winrateDrop, stat.goodmovewinrate)
      NotBad(n) == n.pl = pl /\ DropLess(n.winrateDrop, stat.badmovewinrate + 1)
      Bad(n) == n.pl = pl /\ DropAtLeast(n.winrateDrop, stat.badmovewinrate + 1)
      HotSpot(n) == n.pl = pl /\ DropAtLeast(n.winrateDrop, stat.badhotspotwinrate)
      ByWinrate(n) == n.pl = pl /\ Truthy(n.winrateDrop)
      ByScore(n) == n.pl = pl /\ Truthy(n.scoreDrop)
      Mine(n) == n.pl = pl
  IN  << SelectSeq(drops, Good), SelectSeq(drops, NotBad), SelectSeq(drops, Bad),
         SelectSeq(drops, HotSpot),
         sliceTen(sortByDrop(SelectSeq(drops, ByWinrate), "winrateDrop")),
         sliceTen(sortByDrop(SelectSeq(drops, ByScore), "scoreDrop")),
         SelectSeq(drops, Mine) >>

\* The seven lists of a player: good moves, not bad moves, bad moves, bad
\* hot spots, top 10 win rate drops, top 10 score drops, total.
makeGoodBads(pl, drops, stat) ==
  LET Good(n) == n.pl = pl /\ DropLess(n.winrateDrop, stat.goodmovewinrate)
      NotBad(n) == n.pl = pl /\ DropLess(n.winrateDrop, stat.badmovewinrate)
      Bad(n) == n.pl = pl /\ DropAtLeast(n.winrateDrop, stat.badmovewinrate)
      HotSpot(n) == n.pl = pl /\ DropAtLeast(n.winrateDrop, stat.badhotspotwinrate)
      ByWinrate(n) == n.pl = pl /\ Truthy(n.winrateDrop)
      ByScore(n) == n.pl = pl /\ Truthy(n.scoreDrop)
      Mine(n) == n.pl = pl
  IN  << SelectSeq(drops, Good), SelectSeq(drops, NotBad), SelectSeq(drops, Bad),
         SelectSeq(drops, HotSpot),
         sliceTen(sortByDrop(SelectSeq(drops, ByWinrate), "winrateDrop")),
         sliceTen(sortByDrop(SelectSeq(drops, ByScore), "scoreDrop")),
         SelectSeq(drops, Mine) >>

\* Number.prototype.toFixed(2) of h hundredths.
toFixed2(h) ==
  LET a == IF h < 0 THEN 0 - h ELSE h
  IN  (IF h < 0 THEN <<chMinus>> ELSE <<>>)
      \o Digits(a \div 100) \o <<chDot>>
      \o <<chZero + ((a % 100) \div 10), chZero + (a % 10)>>

\* percents(count / total): the hundredths of a percent nearest to the
\* ratio.
percentsOfRatio(count, total) ==
  toFixed2((2 * count * 10000 + total) \div (2 * total))

\* percents(m.winrateDrop): 'NaN' of undefined.
percentsOfDrop(x) == IF x.has THEN toFixed2(x.n * 100) ELSE Str(<<"N","a","N">>)

chArrow == 8675
CommaSpace == Str(<<","," ">>)

RECURSIVE JoinText(_, _)
JoinText(list, sep) ==
  IF Len(list) = 0 THEN <<>>
  ELSE IF Len(list) = 1 THEN list[1]
  ELSE list[1] \o sep \o JoinText(Tail(list), sep)

\* '#<index + 1> ' and the arrow, before a move's drop.
moveTag(m) == <<Ch("#")>> \o Digits(m.index + 1) \o <<chSpace, chArrow>>

\* One line of the report, or '' for an empty list: the label, the ratio
\* when total is given, the moves when listMoves is.
getDropList(text, moves, total, listMoves, isScore) ==
  IF Len(moves) = 0 THEN <<>>
  ELSE Str(<<"*"," ">>) \o text
       \o (IF total # 0
           THEN Str(<<" ","(">>) \o percentsOfRatio(Len(moves), total) \o Str(<<"%",","," ">>)
                \o Digits(Len(moves)) \o <<Ch("/")>> \o Digits(total) \o <<Ch(")")>>
           ELSE <<>>)
       \o (IF listMoves THEN Str(<<":"," ">>) ELSE <<>>)
       \o (IF listMoves /\ isScore
           THEN JoinText([k \in 1..Len(moves) |->
                            moveTag(moves[k]) \o toFixed2(moves[k].scoreDrop.n)],
                         CommaSpace)
           ELSE <<>>)
       \o (IF listMoves /\ ~isScore
           THEN JoinText([k \in 1..Len(moves) |->
                            moveTag(moves[k]) \o percentsOfDrop(moves[k].winrateDrop)
                            \o <<Ch("%")>>],
                         CommaSpace)
           ELSE <<>>)
       \o <<chNewline>>

LessThan == Str(<<"L","e","s","s"," ","t","h","a","n"," ">>)
MoreThan == Str(<<"M","o","r","e"," ","t","h","a","n"," ">>)
WinRateDrops == Str(<<"%"," ","w","i","n"," ","r","a","t","e"," ","d","r","o","p","s">>)
TopWinrate == Str(<<"T","o","p"," ","1","0"," ","w","i","n"," ","r","a","t","e"," ","d","r","o","p","s">>)
TopScore == Str(<<"T","o","p"," ","1","0"," ","s","c","o","r","e"," ","d","r","o","p","s">>)

\* The six lines of a player; a threshold times 100 prints as the
\* percentage of the options.
reportGoodAndBads(moves, goodmovewinrate, badmovewinrate, badhotspotwinrate) ==
  LET total == Len(moves[7])
  IN  getDropList(LessThan \o Digits(goodmovewinrate) \o WinRateDrops,
                  moves[1], total, FALSE, FALSE)
      \o getDropList(LessThan \o Digits(badmovewinrate) \o WinRateDrops,
                     moves[2], total, FALSE, FALSE)
      \o getDropList(MoreThan \o Digits(badmovewinrate) \o WinRateDrops,
                     moves[3], total, TRUE, FALSE)
      \o getDropList(MoreThan \o Digits(badhotspotwinrate) \o WinRateDrops,
                     moves[4], total, TRUE, FALSE)
      \o getDropList(TopWinrate, moves[5], 0, TRUE, FALSE)
      \o getDropList(TopScore, moves[6], 0, TRUE, TRUE)

\* new GameReport(gametree): the thresholds and the lists of both players;
\* this.report is not set yet.  returned keeps what reportGame() has
\* returned so far.
GameReport(nodes, opts) ==
  LET stat == [ goodmovewinrate |-> opts.maxWinrateDropForGoodMove,
                badmovewinrate |-> opts.minWinrateDropForBadMove,
                badhotspotwinrate |-> opts.minWinrateDropForBadHotSpot ]
      drops == dropsOf(nodes)
  IN  [ goodmovewinrate |-> stat.goodmovewinrate,
        badmovewinrate |-> stat.badmovewinrate,
        badhotspotwinrate |-> stat.badhotspotwinrate,
        goodBads |-> [pl \in {"B", "W"} |-> makeGoodBads(pl, drops, stat)],
        report |-> [set |-> FALSE, text |-> [pl \in {"B", "W"} |-> <<>>]],
        returned |-> <<>> ]

\* reportGame(): this.report if it is set, else the report, of which the
\* model keeps the lines of each player.
reportGame(this) ==
  IF this.report.set THEN this.report.text
  ELSE [pl \in {"B", "W"} |->
          reportGoodAndBads(this.goodBads[pl], this.goodmovewinrate,
                            this.badmovewinrate, this.badhotspotwinrate)]

(***************************************************************************)
(* The calls                                                               *)
(***************************************************************************)

MaxRawLen == 2
MaxRowDigits == 2
MaxText == 4
MaxMoves == 3
MaxQueryMoves == 2

StringsUpTo(alphabet, n) == UNION {[1..k -> alphabet] : k \in 0..n}

\* RAW coordinates and what lies next to them: 'a'..'z' and '{'.
RawAlphabet == chLoA..(chLoZ + 1)
RawInputs == StringsUpTo(RawAlphabet, MaxRawLen)
RawPairs == [1..2 -> RawAlphabet]
BoardSizes == 1..25

\* COMPACT coordinates and what lies next to them: a column letter 'A'..'['
\* and a row numeral.
CompactInputs ==
  {<<>>} \cup {<<c>> \o r : c \in chUpA..(chUpZ + 1),
                            r \in StringsUpTo(chZero..chNine, MaxRowDigits)}

\* Sequence text for the splices: the documented examples and every short
\* text over brackets, a backslash and a letter.
ExampleSeqs ==
  { Str(<<"(",";","W","[","a","a","]",";","B","[","b","b","]",";","W","[","c","c","]",")">>),
    Str(<<"(",";","W","[","a","a","]",";","B","[","b","b","]",")">>) }
TextAlphabet == {chLoA, chOpen, chClose, chBackslash}
Texts == StringsUpTo(TextAlphabet, MaxText)
Marks == {Str(<<"X","X">>), Str(<<"T","E","[","1","]">>)}
ExampleOffsets == {0, 7, 13}

\* Move nodes of the tokenizer's tree: a colour key with one coordinate.
MoveCoords == {<<>>, Str(<<"a","a">>), Str(<<"t","t">>)}
OddCoords == {Str(<<"t">>), Str(<<"t","a">>), Str(<<"t","t","t">>), Str(<<"T","T">>)}
MoveNodes == {pl :> <<co>> : pl \in {"B", "W"}, co \in MoveCoords}
MoveListsUpTo(n) == UNION {[1..k -> MoveNodes] : k \in 0..n}
MoveLists == MoveListsUpTo(MaxMoves)
QueryMoveLists == MoveListsUpTo(MaxQueryMoves)
SzArgs == {Num(0), Num(9), Num(19), Num(20), Num(25)}

\* Root nodes: each komi key present or absent under each board size, and
\* a root with an initial player and pre-placed stones.
NoProps == [k \in {} |-> <<>>]
Prop(key, present, value) == IF present THEN key :> <<value>> ELSE NoProps
SzTexts == {<<>>, Str(<<"1","9">>), Str(<<"2","5">>)}
Roots ==
  { Prop("KM", km, Str(<<"6",".","5">>)) @@ Prop("KO", ko, Str(<<"0",".","5">>))
    @@ Prop("SZ", szt # <<>>, szt)
    : km \in BOOLEAN, ko \in BOOLEAN, szt \in SzTexts }
  \cup { ("PL" :> << <<chUpW>> >>)
         @@ ("AB" :> <<Str(<<"i","a">>), Str(<<"a","a">>)>>)
         @@ ("AW" :> <<Str(<<"a","b">>)>>) }

\* The caller's options: a default komi and a visit budget, and an
\* analyze-turn list or none.
DefaultKomi == [nan |-> FALSE, n |-> 75, d |-> 1]
BaseOpts == ("komi" :> DefaultKomi) @@ ("maxVisits" :> 1000)
TurnLists == StringsUpTo(0..(MaxQueryMoves + 1), 2)
OptsSet == {BaseOpts} \cup {("analyzeTurns" :> t) @@ BaseOpts : t \in TurnLists}
Clock == {41, 42}

\* The engine's records: one per analysed turn, each with the root win rate
\* in hundredths, and the text KataGo writes for them, a line per record.
MaxRecords == 3
MaxRevisit == 2
TurnNumbers == 0..3
MergeTurnNumbers == {0, 1, 2, 12}
WinratePcts == {40, 50, 55, 60}
OneRecordPerTurn(l) ==
  \A i, j \in 1..Len(l) : l[i].turnNumber = l[j].turnNumber => i = j
RecordLists(turns, pcts, n) ==
  {l \in UNION {[1..k -> [turnNumber : turns, winrate : pcts]] : k \in 0..n} :
     OneRecordPerTurn(l)}
ExampleRecords ==
  << [turnNumber |-> 0, winrate |-> 50], [turnNumber |-> 1, winrate |-> 55],
     [turnNumber |-> 2, winrate |-> 40], [turnNumber |-> 3, winrate |-> 60] >>
DropStreams == RecordLists(TurnNumbers, WinratePcts, MaxRecords) \cup {ExampleRecords}
WinrateText(pct) ==
  <<chZero, chDot>> \o (IF pct < 10 THEN <<chZero>> ELSE <<>>) \o Digits(pct)
ResponseLine(r) ==
  Str(<<"{","\"","i","d","\"",":","\"","q","\"",",">>) \o QRootInfo
  \o Str(<<":","{">>) \o QWinrate \o WinrateText(r.winrate)
  \o Str(<<"}",",">>) \o QTurnNumber \o Digits(r.turnNumber) \o Str(<<"}">>)
RECURSIVE ResponseText(_)
ResponseText(records) ==
  IF Len(records) = 0 THEN <<>>
  ELSE ResponseLine(Head(records)) \o <<chNewline>> \o ResponseText(Tail(records))
Thresholds == {Pct(10), Pct(20)}
RECURSIVE Ascending(_)
Ascending(S) ==
  IF S = {} THEN <<>>
  ELSE LET m == CHOOSE x \in S : \A y \in S : x <= y
       IN  <<m>> \o Ascending(S \ {m})
MergeTurnLists == {Ascending(S) : S \in SUBSET MergeTurnNumbers}

\* The batch of a run of main: the paths, and what each one holds.
MaxPaths == 2
MainRoot == ("KM" :> <<Str(<<"6",".","5">>)>>) @@ ("SZ" :> <<Str(<<"1","9">>)>>)
MainChain == <<MainRoot, "B" :> <<Str(<<"a","a">>)>>>>
ErrorPayload == ErrorMarker \o Str(<<"x","\"","}">>) \o <<chNewline>>
RevisitVisits == 2000
Path(kind, responses) == [kind |-> kind, chain |-> MainChain, responses |-> responses]
EnginePaths == {Path(k, <<>>) : k \in {"other", "bad", "sgf"}}
JsonPaths ==
  {Path("other", <<>>)}
  \cup {Path("json", r) : r \in {<<>>, ErrorPayload, ResponseText(ExampleRecords)}}
Batches(paths) == UNION {[1..k -> paths] : k \in 1..MaxPaths}

\* What an engine process may write for a query: a record for every turn
\* asked for, an error object, or nothing.
EngineRecords(turns, pcts) ==
  {[k \in 1..Len(turns) |-> [turnNumber |-> turns[k], winrate |-> w[k]]] :
     w \in [1..Len(turns) -> pcts]}
EngineAnswers(query, pcts) ==
  {ResponseText(rs) : rs \in EngineRecords(query["analyzeTurns"], pcts)}
  \cup {ErrorPayload, <<>>}

\* The nodes of a game tree as the report reads them: the player and the
\* two drops of a move, both undefined on a move without analysis.
MaxNodes == 3
NodeDrops ==
  { <<Undefined, Undefined>>, <<Drop(0), Drop(0)>>, <<Drop(3), Drop(0 - 150)>>,
    <<Drop(5), Drop(200)>>, <<Drop(20), Drop(200)>> }
Nodes ==
  { [pl |-> pl, winrateDrop |-> d[1], scoreDrop |-> d[2]] :
      pl \in {"B", "W"}, d \in NodeDrops }
NodeLists == UNION { [1..n -> Nodes] : n \in 1..MaxNodes }

\* A game of thirteen analysed moves of one player and one of the other,
\* with ties and a zero among the drops.
LongGame ==
  [i \in 1..13 |->
     [pl |-> "B", winrateDrop |-> Drop((i * 7) % 12),
      scoreDrop |-> Drop((((i * 5) % 12) - 3) * 50)]]
  \o << [pl |-> "W", winrateDrop |-> Drop(3), scoreDrop |-> Drop(0 - 150)] >>

\* The thresholds of the options, in percent.
ReportOpts ==
  { [maxWinrateDropForGoodMove |-> t[1], minWinrateDropForBadMove |-> t[2],
     minWinrateDropForBadHotSpot |-> t[3]] :
      t \in { <<2, 5, 20>>, <<5, 6, 15>>, <<2, 5, 5>> } }

\* The calls of reportGame() on one report.
MaxRenders == 2

NewTask ==
  [ pc |-> "start", query |-> NoProps, queryRe |-> NoProps, first |-> <<>>,
    settled |-> "none", newResponses |-> <<>>,
    handed |-> [given |-> FALSE, val |-> <<>>], outcome |-> "none" ]

Pending == [kind |-> "pending", val |-> <<>>]

InitCall ==
     \/ \E x \in RawInputs : call = [op |-> "iaToJ1", value |-> x]
     \/ \E x \in RawPairs, s \in BoardSizes :
          call = [op |-> "iaToJ19", value |-> x, size |-> s]
     \/ \E v \in CompactInputs : call = [op |-> "iaFromJ1", v |-> v]
     \/ \E seq \in Texts, mark \in Marks, index \in 0..(MaxText + 1) :
          call = [op |-> "addProperty", seq |-> seq, mark |-> mark, index |-> index]
     \/ \E seq \in ExampleSeqs, mark \in Marks, index \in ExampleOffsets :
          call = [op |-> "addProperty", seq |-> seq, mark |-> mark, index |-> index]
     \/ \E seq \in ExampleSeqs \cup Texts, index \in {0, 1}, f \in {"toGoodNode", "toBadNode", "toBadHotSpot"} :
          call = [op |-> f, seq |-> seq, index |-> index]
     \/ \E seq \in ExampleSeqs, comment \in Texts, index \in ExampleOffsets :
          call = [op |-> "addComment", seq |-> seq, comment |-> comment, index |-> index]
     \/ \E pl \in {"B", "W"}, co \in MoveCoords \cup OddCoords, sz \in SzArgs :
          call = [op |-> "isNotPassingMove", data |-> pl :> <<co>>, sz |-> sz]
     \/ \E moves \in MoveLists, sz \in SzArgs :
          call = [op |-> "hasPassingMoves", chain |-> <<NoProps>> \o moves, sz |-> sz]
     \/ \E moves \in MoveLists :
          call = [op |-> "makeRealTurnNumbersMap", chain |-> <<NoProps>> \o moves]
     \/ \E root \in Roots, moves \in QueryMoveLists, o \in OptsSet, now \in Clock :
          call = [op |-> "sgfToKataGoAnalysisQuery", chain |-> <<root>> \o moves,
                  analysisOpts |-> o, now |-> now]
     \/ \E rs \in DropStreams, th \in Thresholds :
          call = [op |-> "winrateDropTurnsFromKataGoResponses", records |-> rs,
                  responses |-> ResponseText(rs), winrateDrop |-> th]
     \/ \E o \in RecordLists(MergeTurnNumbers, {40}, MaxRecords),
            r \in RecordLists(MergeTurnNumbers, {60}, MaxRevisit),
            turns \in MergeTurnLists :
          call = [op |-> "mergeKataGoResponses", records |-> o, revisit |-> r,
                  original |-> ResponseText(o), revisited |-> ResponseText(r),
                  turns |-> turns]
     \/ \E nodes \in NodeLists \cup {LongGame}, o \in ReportOpts :
          call = [op |-> "GameReport", nodes |-> nodes, opts |-> o]

\* No batch runs during a library call.
NoBatch ==
  /\ tasks = <<>>
  /\ sent = <<>>
  /\ disk = {}
  /\ console = {}
  /\ exitedBy = 0

Init ==
  /\ pc = "ready"
  /\ ret = Pending
  /\ InitCall
  /\ NoBatch

\* The command line started on a batch: with the engine (with or without
\* revisit and side-car JSON), or on side-car JSON files.
MainInit ==
  /\ pc = "ready"
  /\ ret = Pending
  /\ sent = <<>>
  /\ disk = {}
  /\ console = {}
  /\ exitedBy = 0
  /\ \/ \E paths \in Batches(EnginePaths), revisit \in {0, RevisitVisits},
            saveGiven \in BOOLEAN :
          call = [op |-> "main", jsonGiven |-> FALSE, paths |-> paths,
                  revisit |-> revisit, saveGiven |-> saveGiven, now |-> 41]
     \/ \E paths \in Batches(JsonPaths) :
          call = [op |-> "main", jsonGiven |-> TRUE, paths |-> paths,
                  revisit |-> 0, saveGiven |-> FALSE, now |-> 41]
  /\ tasks = [i \in 1..Len(call.paths) |-> NewTask]

Return(op, outcome) ==
  /\ pc = "ready"
  /\ call.op = op
  /\ ret' = outcome
  /\ pc' = "done"
  /\ UNCHANGED <<call, tasks, sent, disk, console, exitedBy>>

CallIaToJ1 == Return("iaToJ1", iaToJ1(call.value))

\* A size handed to the one-parameter function is dropped by the call.
CallIaToJ19 == Return("iaToJ19", iaToJ19(call.value))

CallIaFromJ1 == Return("iaFromJ1", iaFromJ1(call.v))

CallAddProperty ==
  Return("addProperty", Value(addProperty(call.seq, call.mark, call.index)))

CallToGoodNode == Return("toGoodNode", Value(toGoodNode(call.seq, call.index)))

CallToBadNode == Return("toBadNode", Value(toBadNode(call.seq, call.index)))

CallToBadHotSpot ==
  Return("toBadHotSpot", Value(toBadHotSpot(call.seq, call.index)))

CallAddComment ==
  Return("addComment", Value(addComment(call.seq, call.comment, call.index)))

\* The node text is what split(';') leaves of mkNode's text.
CallIsNotPassingMove ==
  Return("isNotPassingMove",
         Value(isNotPassingMove(Tail(mkNode(call.data)), call.sz)))

CallHasPassingMoves ==
  Return("hasPassingMoves",
         Value(hasPassingMoves(seqFromObject(call.chain), call.sz)))

CallMakeRealTurnNumbersMap ==
  Return("makeRealTurnNumbersMap",
         Value(makeRealTurnNumbersMap(seqFromObject(call.chain))))

CallSgfToKataGoAnalysisQuery ==
  Return("sgfToKataGoAnalysisQuery",
         Value(sgfToKataGoAnalysisQuery(call.chain, call.analysisOpts, call.now)))

CallWinrateDropTurnsFromKataGoResponses ==
  Return("winrateDropTurnsFromKataGoResponses",
         Value(winrateDropTurnsFromKataGoResponses(call.responses, call.winrateDrop)))

CallMergeKataGoResponses ==
  Return("mergeKataGoResponses",
         Value(mergeKataGoResponses(call.original, call.revisited, call.turns)))

\* A run of main is in progress: the process has not exited.
Running == call.op = "main" /\ pc = "ready" /\ exitedBy = 0

Log(i, msg, text) == [task |-> i, msg |-> msg, text |-> text]

\* saveAnalyzed called by task i with responses, inside main's try: the
\* files, the report, or the catch logging the error's message.
SaveStep(i, t, responses, saveResponse) ==
  LET r == saveAnalyzed(responses, saveResponse)
  IN  /\ tasks' = [tasks EXCEPT ![i] =
                    [t EXCEPT !.pc = "done",
                              !.handed = [given |-> TRUE, val |-> responses],
                              !.outcome = IF r.thrown THEN "failed" ELSE "saved"]]
      /\ disk' = disk \cup {[task |-> i, file |-> f, responses |-> responses] :
                              f \in r.files}
      /\ console' = console
           \cup (IF r.thrown THEN {Log(i, "error", r.message)} ELSE {})
           \cup {Log(i, "generated", <<>>) : f \in r.files}
           \cup (IF r.report THEN {Log(i, "report", <<>>)} ELSE {})

\* opts.paths.forEach of the JSON branch: the paths in order, each one
\* read and handed to saveAnalyzed.
ProcessJson(i) ==
  /\ Running
  /\ call.jsonGiven
  /\ tasks[i].pc = "start"
  /\ \A j \in 1..(i - 1) : tasks[j].pc = "done"
  /\ IF call.paths[i].kind # "json"
     THEN /\ tasks' = [tasks EXCEPT ![i].pc = "done", ![i].outcome = "skipped"]
          /\ console' = console \cup {Log(i, "skipped", <<>>)}
          /\ UNCHANGED disk
     ELSE SaveStep(i, tasks[i], call.paths[i].responses, FALSE)
  /\ UNCHANGED <<call, ret, pc, sent, exitedBy>>

\* opts.paths.map of the engine branch: the async task of path i runs to
\* its first await, after the tasks of the paths before it have.
StartTask(i) ==
  /\ Running
  /\ ~call.jsonGiven
  /\ tasks[i].pc = "start"
  /\ \A j \in 1..(i - 1) : tasks[j].pc # "start"
  /\ LET kind == call.paths[i].kind
         query == sgfToKataGoAnalysisQuery(call.paths[i].chain, BaseOpts, call.now)
     IN  CASE kind = "other" ->
                /\ tasks' = [tasks EXCEPT ![i].pc = "done", ![i].outcome = "skipped"]
                /\ console' = console \cup {Log(i, "skipped", <<>>)}
                /\ UNCHANGED sent
           [] kind = "bad" ->
                /\ tasks' = [tasks EXCEPT ![i].pc = "done", ![i].outcome = "failed"]
                /\ console' = console \cup {Log(i, "error", <<>>)}
                /\ UNCHANGED sent
           [] OTHER ->
                /\ tasks' = [tasks EXCEPT ![i].pc = "first", ![i].query = query]
                /\ sent' = Append(sent, [task |-> i, query |-> query])
                /\ UNCHANGED console
  /\ UNCHANGED <<call, ret, pc, disk, exitedBy>>

\* Rates the engine reports in the first pass and in the revisit.
FirstPcts == {50, 60}
RevisitPcts == {55}

\* kataGoAnalyze of the first query returns to task i, which runs on to its
\* next await: no response ends it, without revisit it saves, with revisit
\* revisitKataGo runs to its own await or return.
FirstAnswer(i) ==
  /\ Running
  /\ tasks[i].pc = "first"
  /\ \E responses \in EngineAnswers(tasks[i].query, FirstPcts) :
       LET t == [tasks[i] EXCEPT !.first = responses]
           rv == revisitKataGo(responses, t.query, call.revisit)
       IN  IF responses = <<>>
           THEN /\ tasks' = [tasks EXCEPT ![i] =
                              [t EXCEPT !.pc = "done", !.outcome = "noresponse"]]
                /\ UNCHANGED <<sent, disk, console>>
           ELSE IF call.revisit = 0
           THEN /\ SaveStep(i, t, responses, call.saveGiven)
                /\ UNCHANGED sent
           ELSE CASE rv.next = "throw" ->
                       /\ tasks' = [tasks EXCEPT ![i] =
                                     [t EXCEPT !.pc = "settled", !.settled = "rejected"]]
                       /\ UNCHANGED <<sent, disk, console>>
                  [] rv.next = "null" ->
                       /\ tasks' = [tasks EXCEPT ![i] =
                                     [t EXCEPT !.pc = "settled", !.settled = "null",
                                               !.queryRe = rv.queryRe]]
                       /\ console' = console \cup {Log(i, "No move found", <<>>)}
                       /\ UNCHANGED <<sent, disk>>
                  [] OTHER ->
                       /\ tasks' = [tasks EXCEPT ![i] =
                                     [t EXCEPT !.pc = "second", !.queryRe = rv.queryRe]]
                       /\ sent' = Append(sent, [task |-> i, query |-> rv.queryRe])
                       /\ UNCHANGED <<disk, console>>
  /\ UNCHANGED <<call, ret, pc, exitedBy>>

\* RevisitAnswer merging whatever the revisit returned, nothing included.
RevisitAnswer_MergesEmpty(i) ==
  /\ Running
  /\ tasks[i].pc = "second"
  /\ \E responsesRe \in EngineAnswers(tasks[i].queryRe, RevisitPcts) \ {ErrorPayload} :
       /\ tasks' = [tasks EXCEPT ![i].pc = "settled", ![i].settled = "merged",
                      ![i].newResponses =
                        mergeKataGoResponses(tasks[i].first, responsesRe,
                                             tasks[i].queryRe["analyzeTurns"])]
       /\ console' = console \cup (IF responsesRe = <<>>
                                   THEN {Log(i, "revisit error", <<>>)} ELSE {})
  /\ UNCHANGED <<call, ret, pc, sent, disk, exitedBy>>

\* kataGoAnalyze of the revisit query returns to revisitKataGo, which
\* returns null or the merged responses.
RevisitAnswer(i) ==
  /\ Running
  /\ tasks[i].pc = "second"
  /\ \E responsesRe \in EngineAnswers(tasks[i].queryRe, RevisitPcts) \ {ErrorPayload} :
       IF responsesRe = <<>>
       THEN /\ tasks' = [tasks EXCEPT ![i].pc = "settled", ![i].settled = "null"]
            /\ console' = console \cup {Log(i, "revisit error", <<>>)}
       ELSE /\ tasks' = [tasks EXCEPT ![i].pc = "settled", ![i].settled = "merged",
                           ![i].newResponses =
                             mergeKataGoResponses(tasks[i].first, responsesRe,
                                                  tasks[i].queryRe["analyzeTurns"])]
            /\ UNCHANGED console
  /\ UNCHANGED <<call, ret, pc, sent, disk, exitedBy>>

\* The await of revisitKataGo resumes task i: a rejection goes to the catch,
\* otherwise the responses (the new ones if any) are saved.
AfterRevisit(i) ==
  /\ Running
  /\ tasks[i].pc = "settled"
  /\ IF tasks[i].settled = "rejected"
     THEN /\ tasks' = [tasks EXCEPT ![i].pc = "done", ![i].outcome = "failed"]
          /\ console' = console \cup {Log(i, "error", Str(<<"T","y","p","e","E","r","r","o","r">>))}
          /\ UNCHANGED disk
     ELSE SaveStep(i, tasks[i],
                   IF tasks[i].settled = "merged" THEN tasks[i].newResponses
                   ELSE tasks[i].first,
                   call.saveGiven)
  /\ UNCHANGED <<call, ret, pc, sent, exitedBy>>

\* The engine process of task i exits with a non-zero code while the task
\* awaits it: the exit handler logs and calls process.exit(1).
EngineExits(i) ==
  /\ Running
  /\ tasks[i].pc \in {"first", "second"}
  /\ exitedBy' = i
  /\ console' = console \cup {Log(i, "KataGo exec failure", <<>>)}
  /\ UNCHANGED <<call, ret, pc, tasks, sent, disk>>

\* new GameReport(gametree) and its reportGame().
CallGameReport ==
  Return("GameReport", Value(GameReport(call.nodes, call.opts)))

\* reportGame() on the report made: the text is kept in this.report and
\* returned.
CallReportGame ==
  /\ pc = "done"
  /\ call.op = "GameReport"
  /\ Len(ret.val.returned) < MaxRenders
  /\ ret' = [ret EXCEPT !.val.report = [set |-> TRUE, text |-> reportGame(ret.val)],
                        !.val.returned = Append(@, reportGame(ret.val))]
  /\ UNCHANGED <<call, pc, tasks, sent, disk, console, exitedBy>>

Next ==
  \/ CallIaToJ1
  \/ CallIaToJ19
  \/ CallIaFromJ1
  \/ CallAddProperty
  \/ CallToGoodNode
  \/ CallToBadNode
  \/ CallToBadHotSpot
  \/ CallAddComment
  \/ CallIsNotPassingMove
  \/ CallHasPassingMoves
  \/ CallMakeRealTurnNumbersMap
  \/ CallSgfToKataGoAnalysisQuery
  \/ CallWinrateDropTurnsFromKataGoResponses
  \/ CallMergeKataGoResponses
  \/ CallGameReport
  \/ CallReportGame

Spec == Init /\ [][Next]_vars

MainNext ==
  \/ \E i \in 1..Len(tasks) : ProcessJson(i)
  \/ \E i \in 1..Len(tasks) : StartTask(i)
  \/ \E i \in 1..Len(tasks) : FirstAnswer(i)
  \/ \E i \in 1..Len(tasks) : RevisitAnswer(i)
  \/ \E i \in 1..Len(tasks) : AfterRevisit(i)
  \/ \E i \in 1..Len(tasks) : EngineExits(i)

MainSpec == MainInit /\ [][MainNext]_vars

(***************************************************************************)
(* Properties                                                              *)
(***************************************************************************)

Done(op) == pc = "done" /\ call.op = op

\* The column letters of COMPACT and DISPLAY coordinates, 'I' left out.
CompactColumns ==
  Str(<<"A","B","C","D","E","F","G","H","J","K","L","M","N","O","P","Q","R",
        "S","T","U","V","W","X","Y","Z">>)

\* A RAW coordinate of a board of the given size: two letters among the
\* first size letters of 'a'..'y'.
RawOnBoard(x, size) ==
  /\ Len(x) = 2
  /\ \A i \in 1..2 : x[i] >= chLoA /\ x[i] < chLoA + size
ValidRaw(x) == RawOnBoard(x, Len(CompactColumns))

Range(s) == {s[i] : i \in 1..Len(s)}

\* A COMPACT coordinate: a column letter and the numeral of a row 1..25.
ValidCompact(v) ==
  /\ Len(v) >= 2
  /\ v[1] \in Range(CompactColumns)
  /\ \E n \in 1..Len(CompactColumns) : Tail(v) = Digits(n)

\* C1: converting a valid RAW coordinate to COMPACT and back gives the
\* coordinate again: iaFromJ1(iaToJ1(x)) = x.
C1_RoundTrip ==
  (Done("iaToJ1") /\ ValidRaw(call.value))
    => iaFromJ1(ret.val) = Value(call.value)

\* 'yy', the last point of a 25x25 board, became 'Z25' and converts back.
C1_Witness ==
  /\ Done("iaToJ1")
  /\ call.value = Str(<<"y","y">>)
  /\ ret.val = Str(<<"Z","2","5">>)
  /\ iaFromJ1(ret.val) = Value(call.value)

\* C2: for a board size s in 1..25 and a RAW coordinate on that board, the
\* DISPLAY form is the COMPACT column letter followed by s + 1 - row_raw.
C2_DisplayUsesBoardSize ==
  (Done("iaToJ19") /\ RawOnBoard(call.value, call.size))
    => ret = Value(<<CompactColumns[call.value[1] - chLoA + 1]>>
                   \o Digits(call.size + 1 - (call.value[2] - chLoA + 1)))

\* Whether the arguments of a coordinate call lie in the supported domain.
InCodecDomain ==
  CASE call.op = "iaToJ1" -> ValidRaw(call.value)
    [] call.op = "iaToJ19" -> RawOnBoard(call.value, call.size)
    [] call.op = "iaFromJ1" -> ValidCompact(call.v)
    [] OTHER -> TRUE
\* C3: a coordinate operation called outside its domain ends in RangeError
\* and returns no value.
C3_OutOfDomainRangeError ==
  (pc = "done" /\ ~InCodecDomain) => ret.kind = "RangeError"

\* The pass rule: an empty coordinate, or 'tt' on a board smaller than 20.
IsPass(co, sz) == co = <<>> \/ (sz < 20 /\ co = Str(<<"t","t">>))

\* The coordinate of a move node of the tree.
CoordOf(data) == IF Has(data, "B") THEN data["B"][1] ELSE data["W"][1]

\* C4: a move is a pass iff its coordinate is empty, or the board is
\* smaller than 20 and the coordinate is 'tt'; hasPassingMoves is true iff
\* some node of the sequence is such a pass.
C4_PassDetection ==
  /\ Done("isNotPassingMove")
       => ret.val = ~IsPass(CoordOf(call.data), call.sz.n)
  /\ Done("hasPassingMoves")
       => ret.val = (\E i \in 2..Len(call.chain)
                       : IsPass(CoordOf(call.chain[i]), call.sz.n))

\* On a 20x20 board a sequence whose only special move is 'tt' has no pass.
C4_Witness ==
  /\ Done("hasPassingMoves")
  /\ call.sz.n = 20
  /\ \E i \in 2..Len(call.chain) : CoordOf(call.chain[i]) = Str(<<"t","t">>)
  /\ \A i \in 2..Len(call.chain) : CoordOf(call.chain[i]) # <<>>
  /\ ret.val = FALSE

\* The splicing calls and the text each inserts.
SpliceOps == {"addProperty", "toGoodNode", "toBadNode", "toBadHotSpot"}
MarkOf ==
  CASE call.op = "addProperty" -> call.mark
    [] call.op = "toGoodNode" -> Str(<<"T","E","[","1","]">>)
    [] call.op = "toBadNode" -> Str(<<"B","M","[","1","]">>)
    [] call.op = "toBadHotSpot" -> Str(<<"B","M","[","1","]","H","O","[","1","]">>)

\* The 0-based positions p >= from of a ']' of seq that no backslash
\* immediately precedes.
Closers(seq, from) ==
  {p \in from..(Len(seq) - 1) :
     seq[p + 1] = chClose /\ (p = 0 \/ seq[p] # chBackslash)}
Least(S) == CHOOSE p \in S : \A q \in S : p <= q

\* seq with text put in after its first k characters.
Inserted(seq, text, k) ==
  SubSeq(seq, 1, k) \o text \o SubSeq(seq, k + 1, Len(seq))

\* What a splice returns when the ']' it looks for is the first of S.
SpliceAfterFirst(S) ==
  IF S # {} THEN ret.val = Inserted(call.seq, MarkOf, Least(S) + 1)
  ELSE ret.val = <<>>

\* C5 as stated: the text goes in after the first unescaped ']' at a position
\* >= max(0, approxOffset - 1).
C5_SpliceFromStart ==
  (pc = "done" /\ call.op \in SpliceOps)
    => SpliceAfterFirst(Closers(call.seq, Max(0, call.index - 1)))

\* C5: the text goes in after the first unescaped ']' at a position
\* > max(0, approxOffset - 1), every other character of seq staying in place;
\* without such a ']' the empty string is returned.
C5_SpliceAfterStart ==
  (pc = "done" /\ call.op \in SpliceOps)
    => SpliceAfterFirst(Closers(call.seq, Max(0, call.index - 1) + 1))

\* Offset 7 of the documented example: position 6 holds a ']', and the mark
\* goes in after the next one.
C5_Witness ==
  /\ Done("addProperty")
  /\ call.index = 7
  /\ call.mark = Str(<<"X","X">>)
  /\ 6 \in Closers(call.seq, 6)
  /\ ret.val = Str(<<"(",";","W","[","a","a","]",";","B","[","b","b","]",
                     "X","X",";","W","[","c","c","]",")">>)

\* t with every '\]' replaced by ']'.
RECURSIVE Unescape(_)
Unescape(t) ==
  IF Len(t) < 2 THEN t
  ELSE IF t[1] = chBackslash /\ t[2] = chClose
       THEN <<chClose>> \o Unescape(SubSeq(t, 3, Len(t)))
       ELSE <<t[1]>> \o Unescape(Tail(t))

\* The property a successful addComment call spliced into the sequence.
SplicedComment ==
  LET k == Least(Closers(call.seq, Max(0, call.index - 1) + 1)) + 1
  IN  SubSeq(ret.val, k + 1, k + Len(ret.val) - Len(call.seq))

\* C6: the spliced property is C[<text>] whose only ']' without a backslash
\* before it is the closing one, and un-escaping its body gives the comment.
C6_CommentEscaped ==
  (Done("addComment") /\ ret.val # <<>>)
    => LET prop == SplicedComment
       IN  /\ Len(prop) >= 3
           /\ SubSeq(prop, 1, 2) = Str(<<"C","[">>)
           /\ \A i \in 2..Len(prop) :
                (prop[i] = chClose /\ prop[i - 1] # chBackslash) <=> i = Len(prop)
           /\ Unescape(SubSeq(prop, 3, Len(prop) - 1)) = call.comment

\* The moves of a chain (the root left out) and the 19x19 pass rule that a
\* call without a board size applies.
MovesOf(chain) == Tail(chain)
NonPassIndices(moves, sz) ==
  {i \in 1..Len(moves) : ~IsPass(CoordOf(moves[i]), sz)}

\* What the claims say of a turn map m of the given moves.
IsTurnMapOf(m, moves) ==
  LET real == NonPassIndices(moves, DefaultSz)
  IN  /\ Len(m) = 1 + Cardinality(real)
      /\ m[1] = 0
      /\ \A p \in 1..(Len(m) - 1) : m[p] < m[p + 1]
      /\ \A p \in 2..Len(m) :
           m[p] \in real /\ Cardinality({i \in real : i <= m[p]}) = p - 1

\* C7: the turn map starts with 0, is strictly increasing, has one entry
\* more than there are non-pass moves, and holds at each position p >= 1 the
\* 1-based real index of the p-th non-pass move.
C7_TurnMapShape ==
  Done("makeRealTurnNumbersMap")
    => IsTurnMapOf(ret.val, MovesOf(call.chain))

\* A pass at real index 2 of three moves: the map is 0, 1, 3.
C7_Witness ==
  /\ Done("makeRealTurnNumbersMap")
  /\ Len(call.chain) = 4
  /\ CoordOf(call.chain[3]) = <<>>
  /\ ret.val = <<0, 1, 3>>

\* The turn map of the given moves, built from its description: 0, then the
\* real indices of the non-pass moves in ascending order.
TurnMapOf(moves) ==
  LET real == NonPassIndices(moves, DefaultSz)
  IN  [p \in 1..(1 + Cardinality(real)) |->
        IF p = 1 THEN 0
        ELSE CHOOSE i \in real : Cardinality({j \in real : j <= i}) = p - 1]

\* The real indices of turns re-expressed as engine indices through the map
\* m, in the order given; an index the map does not hold is left out.
RECURSIVE Translate(_, _)
Translate(turns, m) ==
  IF turns = <<>> THEN <<>>
  ELSE LET ps == {p \in 0..(Len(m) - 1) : m[p + 1] = Head(turns)}
       IN  (IF ps = {} THEN <<>> ELSE <<CHOOSE p \in ps : TRUE>>)
           \o Translate(Tail(turns), m)

\* The board size of a record; a record without SZ is a 19x19 board.
BoardSizeOf(root) ==
  IF Has(root, "SZ") THEN parseInt(root["SZ"][1]).n ELSE DefaultSz

QueryDone == Done("sgfToKataGoAnalysisQuery")
QueryRoot == Head(call.chain)
QueryHasPass ==
  \E i \in 2..Len(call.chain)
    : IsPass(CoordOf(call.chain[i]), BoardSizeOf(QueryRoot))

C9_AllTurns ==
  (QueryDone /\ ~Has(call.analysisOpts, "analyzeTurns"))
    => LET N == Len(ret.val["moves"])
       IN  /\ N = Cardinality(NonPassIndices(MovesOf(call.chain),
                                             BoardSizeOf(QueryRoot)))
           /\ ret.val["analyzeTurns"] = [i \in 1..(N + 1) |-> i - 1]

\* Two moves of which one is a pass: the turns are 0, 1.
C9_Witness ==
  /\ QueryDone
  /\ ~Has(call.analysisOpts, "analyzeTurns")
  /\ Len(call.chain) = 3
  /\ QueryHasPass
  /\ ret.val["analyzeTurns"] = <<0, 1>>

\* C10: the query's komi is KM of the root when present, otherwise KO of
\* the root when present, otherwise the komi of the options.
C10_KomiSelection ==
  QueryDone
    => ret.val["komi"]
         = IF Has(QueryRoot, "KM") THEN parseFloat(QueryRoot["KM"][1])
           ELSE IF Has(QueryRoot, "KO") THEN parseFloat(QueryRoot["KO"][1])
           ELSE call.analysisOpts["komi"]

\* The turn map the query is built with.
QueryTurnMap == makeRealTurnNumbersMap(seqFromObject(call.chain))

\* The analyze-turn list of the caller was translated through the turn map.
QueryTranslated ==
  /\ Has(call.analysisOpts, "analyzeTurns")
  /\ hasPassingMoves(seqFromObject(call.chain), Num(DefaultSz))

\* C20: whatever the board size of the record (SZ absent, SZ <= 19 or
\* SZ >= 20), the move list of the query and the turn map are built with
\* pass rules that agree: the turn map has one entry more than the query has
\* moves, and every translated analyze turn is an index in 0..N, N the
\* number of moves of the query.
C20_QueryMatchesTurnMap ==
  QueryDone =>
    /\ Len(QueryTurnMap) = Len(ret.val["moves"]) + 1
    /\ QueryTranslated =>
         \A k \in 1..Len(ret.val["analyzeTurns"]) :
           ret.val["analyzeTurns"][k] \in 0..Len(ret.val["moves"])

\* The same of the records of boards below 20.
QueryMatchesTurnMapBelow20 ==
  (QueryDone /\ BoardSizeOf(QueryRoot) < 20) =>
    /\ Len(QueryTurnMap) = Len(ret.val["moves"]) + 1
    /\ QueryTranslated =>
         \A k \in 1..Len(ret.val["analyzeTurns"]) :
           ret.val["analyzeTurns"][k] \in 0..Len(ret.val["moves"])

(***************************************************************************)
(* Revisit detection and merge                                             *)
(***************************************************************************)

DropDone == Done("winrateDropTurnsFromKataGoResponses")

\* The records of a stream by turn: whether turn t has a record, and its
\* win rate in hundredths.
HasTurn(records, t) == \E i \in 1..Len(records) : records[i].turnNumber = t
WinrateOf(records, t) ==
  records[CHOOSE i \in 1..Len(records) : records[i].turnNumber = t].winrate
AbsInt(x) == IF x < 0 THEN 0 - x ELSE x

\* The turns t-1 whose record and the record of turn t differ by more than
\* the threshold (in hundredths).
DropTurnSet(records, pct) ==
  {t \in TurnNumbers :
     /\ HasTurn(records, t)
     /\ HasTurn(records, t + 1)
     /\ AbsInt(WinrateOf(records, t) - WinrateOf(records, t + 1)) > pct}

\* The same records in ascending order of turn.
InTurnOrder(records) ==
  LET ts == Ascending({records[i].turnNumber : i \in 1..Len(records)})
  IN  [k \in 1..Len(ts) |->
        records[CHOOSE i \in 1..Len(records) : records[i].turnNumber = ts[k]]]

StrictlyAscending(l) == \A i, j \in 1..Len(l) : i < j => l[i] < l[j]

\* C11: for a stream of per-turn records in any order, the result holds
\* turn t-1 exactly when the records of turns t-1 and t both exist and their
\* win rates differ by more than the threshold; it is ascending, without
\* duplicates, and the same as for the records given in turn order (hence
\* the same for every permutation).
C11_DropTurns ==
  DropDone =>
    /\ ret.kind = "value"
    /\ {ret.val[i] : i \in 1..Len(ret.val)}
         = DropTurnSet(call.records, call.winrateDrop.n)
    /\ StrictlyAscending(ret.val)
    /\ ret.val = winrateDropTurnsFromKataGoResponses(
                   ResponseText(InTurnOrder(call.records)), call.winrateDrop)

\* A stream out of turn order with a flagged pair and with a pair whose
\* difference equals the threshold.
C11_Witness ==
  /\ DropDone
  /\ call.records # InTurnOrder(call.records)
  /\ ret.val # <<>>
  /\ \E t \in TurnNumbers :
       /\ HasTurn(call.records, t)
       /\ HasTurn(call.records, t + 1)
       /\ AbsInt(WinrateOf(call.records, t) - WinrateOf(call.records, t + 1))
            = call.winrateDrop.n
       /\ \A i \in 1..Len(ret.val) : ret.val[i] # t

DropExample ==
  DropDone /\ call.records = ExampleRecords /\ call.winrateDrop = Pct(10)

\* C12: for turns 0..3 with root win rates 0.50, 0.55, 0.40, 0.60 and
\* threshold 0.10, the revisit turns are exactly [1].
C12_ExampleOnlyTurn1 == DropExample => ret.val = <<1>>

\* C12 as it holds: for turns 0..3 with root win rates 0.50, 0.55, 0.40, 0.60
\* and threshold 0.10, the revisit turns are exactly [1, 2]: the 0.15 between
\* turns 1 and 2 flags turn 1 and the 0.20 between turns 2 and 3 flags turn 2.
C12_ExampleTurns1And2 == DropExample => ret.val = <<1, 2>>

\* The example stream has been evaluated and turn 2 is among the result.
C12_Witness ==
  DropExample /\ \E i \in 1..Len(ret.val) : ret.val[i] = 2

MergeDone == Done("mergeKataGoResponses")

\* The original records whose turn is not in turns, in their order.
Surviving(records, turns) ==
  LET NotRevisited(r) == indexOf(turns, r.turnNumber) = -1
  IN  SelectSeq(records, NotRevisited)

\* C13: the merged stream is the original records whose turn is not in
\* turns, in their original order, followed by the revisit records unchanged
\* and in their order; nothing is sorted by turn number.
C13_MergeKeepsOrder ==
  MergeDone =>
    /\ ret.kind = "value"
    /\ ret.val = ResponseText(Surviving(call.records, call.turns))
                 \o ResponseText(call.revisit)

\* A merge that drops an original record, keeps a later one, and appends a
\* revisit record of an earlier turn, leaving the stream out of turn order.
C13_Witness ==
  /\ MergeDone
  /\ Len(Surviving(call.records, call.turns)) < Len(call.records)
  /\ \E i \in 1..Len(call.records), j \in 1..Len(call.revisit) :
       /\ indexOf(call.turns, call.records[i].turnNumber) = -1
       /\ call.revisit[j].turnNumber < call.records[i].turnNumber
       /\ call.records[i].turnNumber = 12
  /\ Len(ret.val) > Len(call.revisited)

(***************************************************************************)
(* The game report                                                         *)
(***************************************************************************)

ReportDone == Done("GameReport")

Players == {"B", "W"}

\* The list pl's bucket k is, 1 to 7 for the code's 0 to 6.
Bucket(pl, k) == ret.val.goodBads[pl][k]

\* The indexes of the moves of a list.
IndexesOf(list) == { list[k].index : k \in 1..Len(list) }

\* The list holds moves of the game, each once, in the order of the game.
InGameOrder(list) ==
  /\ \A k \in 1..Len(list) :
       /\ list[k].index + 1 \in 1..Len(call.nodes)
       /\ list[k].pl = call.nodes[list[k].index + 1].pl
       /\ list[k].winrateDrop = call.nodes[list[k].index + 1].winrateDrop
       /\ list[k].scoreDrop = call.nodes[list[k].index + 1].scoreDrop
  /\ \A k \in 1..(Len(list) - 1) : list[k].index < list[k + 1].index

\* The indexes of pl's moves with a win rate drop under, or not under, a
\* threshold in percent.
MovesUnder(pl, t) ==
  { i - 1 : i \in { j \in 1..Len(call.nodes) :
                     /\ call.nodes[j].pl = pl
                     /\ call.nodes[j].winrateDrop.has
                     /\ call.nodes[j].winrateDrop.n < t } }
MovesFrom(pl, t) ==
  { i - 1 : i \in { j \in 1..Len(call.nodes) :
                     /\ call.nodes[j].pl = pl
                     /\ call.nodes[j].winrateDrop.has
                     /\ call.nodes[j].winrateDrop.n >= t } }

\* C17: with goodCeiling < badFloor <= hotSpotFloor, the good, acceptable,
\* bad and hot spot lists of a player are that player's moves with a drop
\* under goodCeiling, under badFloor, at least badFloor and at least
\* hotSpotFloor; so good is within acceptable and hot spot within bad.
C17_Classification ==
  ReportDone =>
    \A pl \in Players :
      /\ \A k \in 1..4 : InGameOrder(Bucket(pl, k))
      /\ IndexesOf(Bucket(pl, 1)) = MovesUnder(pl, call.opts.maxWinrateDropForGoodMove)
      /\ IndexesOf(Bucket(pl, 2)) = MovesUnder(pl, call.opts.minWinrateDropForBadMove)
      /\ IndexesOf(Bucket(pl, 3)) = MovesFrom(pl, call.opts.minWinrateDropForBadMove)
      /\ IndexesOf(Bucket(pl, 4)) = MovesFrom(pl, call.opts.minWinrateDropForBadHotSpot)
      /\ IndexesOf(Bucket(pl, 1)) \subseteq IndexesOf(Bucket(pl, 2))
      /\ IndexesOf(Bucket(pl, 4)) \subseteq IndexesOf(Bucket(pl, 3))

\* The list has a move with this win rate drop.
HasDrop(list, n) == \E k \in 1..Len(list) : list[k].winrateDrop = Drop(n)

\* Thresholds 5, 6 and 15 percent: a drop of 0.03 is good and acceptable and
\* not bad, a drop of 0.20 of the same player is bad and a hot spot, and a
\* move of the other player is in none of the player's lists.
C17_Witness ==
  /\ ReportDone
  /\ call.opts.maxWinrateDropForGoodMove = 5
  /\ call.opts.minWinrateDropForBadMove = 6
  /\ call.opts.minWinrateDropForBadHotSpot = 15
  /\ HasDrop(Bucket("B", 1), 3) /\ HasDrop(Bucket("B", 2), 3)
  /\ ~HasDrop(Bucket("B", 3), 3)
  /\ HasDrop(Bucket("B", 3), 20) /\ HasDrop(Bucket("B", 4), 20)
  /\ Len(Bucket("W", 7)) = 1

\* The moves of pl with a drop of this kind that the list leaves out.
LeftOut(pl, list, key) ==
  { j \in 1..Len(call.nodes) :
      /\ call.nodes[j].pl = pl
      /\ call.nodes[j][key].has
      /\ (j - 1) \notin IndexesOf(list) }

\* A top list of pl by the drop of this kind: moves of pl, at most ten, in
\* descending order of the drop, in the order of the game among equal
\* drops, and no move left out has a larger drop than a move kept.
IsTopTen(pl, list, key) ==
  /\ Len(list) <= 10
  /\ \A k \in 1..Len(list) :
       /\ list[k].index + 1 \in 1..Len(call.nodes)
       /\ call.nodes[list[k].index + 1].pl = pl
       /\ list[k][key] = call.nodes[list[k].index + 1][key]
       /\ list[k][key].has
  /\ \A k \in 1..(Len(list) - 1) :
       \/ list[k][key].n > list[k + 1][key].n
       \/ /\ list[k][key].n = list[k + 1][key].n
          /\ list[k].index < list[k + 1].index
  /\ \A j \in LeftOut(pl, list, key), k \in 1..Len(list) :
       call.nodes[j][key].n <= list[k][key].n

\* C18: the top 10 of a player by win rate drop, and by score drop, has at
\* most 10 entries in descending order of the drop, keeps the order of the
\* game among equal drops, and holds the largest drops of the player's
\* moves: every move left out has a drop no larger than every move kept.
C18_TopTen ==
  ReportDone =>
    \A pl \in Players :
      /\ IsTopTen(pl, Bucket(pl, 5), "winrateDrop")
      /\ IsTopTen(pl, Bucket(pl, 6), "scoreDrop")

\* The same of the win rate drops alone, which are never negative.
TopTenByWinrate ==
  ReportDone => \A pl \in Players : IsTopTen(pl, Bucket(pl, 5), "winrateDrop")

\* The top 10 cut a longer list short.
TopTenCut ==
  ReportDone /\ Len(Bucket("B", 5)) = 10 /\ Len(Bucket("B", 7)) > 10

\* reportGame() has returned.
Rendered == ReportDone /\ Len(ret.val.returned) > 0

\* The label of the line of bucket k.
BucketLabel(k) ==
  CASE k = 1 -> LessThan \o Digits(call.opts.maxWinrateDropForGoodMove) \o WinRateDrops
    [] k = 2 -> LessThan \o Digits(call.opts.minWinrateDropForBadMove) \o WinRateDrops
    [] k = 3 -> MoreThan \o Digits(call.opts.minWinrateDropForBadMove) \o WinRateDrops
    [] k = 4 -> MoreThan \o Digits(call.opts.minWinrateDropForBadHotSpot) \o WinRateDrops
    [] k = 5 -> TopWinrate
    [] k = 6 -> TopScore

\* The buckets of pl that are not empty, in the order of the report.
Filled(pl) ==
  LET NotEmpty(k) == Len(Bucket(pl, k)) > 0
  IN  SelectSeq(<<1, 2, 3, 4, 5, 6>>, NotEmpty)

\* ', count/total)' as a line carries it.
CountOfTotal(count, total) ==
  CommaSpace \o Digits(count) \o <<Ch("/")>> \o Digits(total) \o <<Ch(")")>>

\* The lines of a player's text are those of the player's non-empty
\* buckets, one each and in their order, and a line of the first four
\* buckets carries the count of the bucket and the total given.
LinesAsBuckets(pl, text, total) ==
  LET lines == SelectSeq(Split(text, chNewline), NonEmpty)
      filled == Filled(pl)
  IN  /\ Len(lines) = Len(filled)
      /\ \A i \in 1..Len(filled) :
           /\ i <= Len(lines)
           /\ 0 \in Occurrences(lines[i], Str(<<"*"," ">>) \o BucketLabel(filled[i]))
           /\ filled[i] <= 4 =>
                Occurrences(lines[i],
                            CountOfTotal(Len(Bucket(pl, filled[i])), total)) # {}

\* The moves of pl that were analysed, and all the moves of pl.
AnalysedMoves(pl) ==
  Cardinality({ j \in 1..Len(call.nodes) :
                  call.nodes[j].pl = pl /\ call.nodes[j].winrateDrop.has })
AllMoves(pl) ==
  Cardinality({ j \in 1..Len(call.nodes) : call.nodes[j].pl = pl })

\* Every call of reportGame() returned the same text.
SameTextEveryTime ==
  \A a, b \in 1..Len(ret.val.returned) : ret.val.returned[a] = ret.val.returned[b]

\* C19: the report of a player has a line for a bucket if and only if the
\* bucket is not empty; a good, acceptable, bad or hot spot line carries the
\* count of the bucket and the number of the player's analysed moves as
\* count/total; and rendering the same drops and thresholds twice gives the
\* same text.
C19_ReportLines ==
  Rendered =>
    /\ \A pl \in Players, r \in 1..Len(ret.val.returned) :
         LinesAsBuckets(pl, ret.val.returned[r][pl], AnalysedMoves(pl))
    /\ SameTextEveryTime

\* The same with the number of all the player's moves, analysed or not, as
\* the total.
ReportLinesOfAllMoves ==
  Rendered =>
    /\ \A pl \in Players, r \in 1..Len(ret.val.returned) :
         LinesAsBuckets(pl, ret.val.returned[r][pl], AllMoves(pl))
    /\ SameTextEveryTime

\* A report rendered twice with an empty and a non-empty bucket of a
\* player whose moves were all analysed.
RenderedTwice ==
  /\ Rendered
  /\ Len(ret.val.returned) = 2
  /\ Len(Bucket("B", 1)) > 0
  /\ Len(Bucket("B", 4)) = 0
  /\ AnalysedMoves("B") = AllMoves("B")

\* Every move of pl is in exactly one of the acceptable and the bad list,
\* and the two lists together are as long as the list of pl's moves.
Partitioned(pl) ==
  /\ \A j \in 1..Len(call.nodes) :
       call.nodes[j].pl = pl =>
         ((j - 1) \in IndexesOf(Bucket(pl, 2))) # ((j - 1) \in IndexesOf(Bucket(pl, 3)))
  /\ Len(Bucket(pl, 2)) + Len(Bucket(pl, 3)) = Len(Bucket(pl, 7))
  /\ Len(Bucket(pl, 7)) = AllMoves(pl)

\* C22: for every list of game nodes, nodes without a win rate drop
\* included, each move of a player is in exactly one of the acceptable and
\* the bad bucket, so that their counts add up to the total of the player's
\* moves, the denominator of the report's percentages.
C22_BucketPartition ==
  ReportDone => \A pl \in Players : Partitioned(pl)

\* The same of the players whose moves were all analysed.
PartitionOfAnalysed ==
  ReportDone =>
    \A pl \in Players : AnalysedMoves(pl) = AllMoves(pl) => Partitioned(pl)

(***************************************************************************)
(* The command line                                                        *)
(***************************************************************************)

TaskIds == 1..Len(tasks)
RequestsOf(i) == {k \in 1..Len(sent) : sent[k].task = i}
LogsOf(i, msg) == {l \in console : l.task = i /\ l.msg = msg}

\* All rates of a response text are equal: no pair of turns can differ.
FlatRates(responses) ==
  LET lines == SelectSeq(Split(responses, chNewline), NonEmpty)
  IN  /\ Len(lines) > 0
      /\ \A k \in 1..Len(lines) :
           /\ Occurrences(lines[k], QRootInfo) # {}
           /\ JSONparse(lines[k]).rootInfo.winrate
                = JSONparse(lines[1]).rootInfo.winrate

\* Task i ran with revisit enabled and its first responses give no turn to
\* revisit.
EmptyRevisit(i) ==
  /\ call.revisit # 0
  /\ tasks[i].pc \in {"settled", "second", "done"}
  /\ FlatRates(tasks[i].first)

\* C14: with revisit enabled and no turn to revisit, no second request is
\* sent, nothing is merged, no error is raised, and the save step is handed
\* exactly the first-phase responses.
C14_EmptyRevisitSkipsMerge ==
  \A i \in TaskIds :
    EmptyRevisit(i) =>
      /\ Cardinality(RequestsOf(i)) = 1
      /\ tasks[i].pc # "second"
      /\ tasks[i].settled = "null"
      /\ LogsOf(i, "error") = {}
      /\ LogsOf(i, "revisit error") = {}
      /\ tasks[i].pc = "done" =>
           /\ tasks[i].outcome = "saved"
           /\ tasks[i].handed = [given |-> TRUE, val |-> tasks[i].first]

\* A task with revisit enabled and flat rates has saved its first responses
\* while the other task of the batch was revisiting.
C14_Witness ==
  \E i, j \in TaskIds :
    /\ EmptyRevisit(i)
    /\ tasks[i].pc = "done"
    /\ tasks[i].handed.given
    /\ tasks[j].pc = "second"

\* C15: a failure while processing one record never keeps another record
\* of the batch from its own save or logged failure: the process never ends
\* on one record's engine failure while another record is unfinished.
C15_BatchIsolation ==
  \A i, j \in TaskIds :
    (exitedBy = i /\ j # i) => tasks[j].pc = "done"

HandedBad(i) ==
  /\ tasks[i].handed.given
  /\ \/ tasks[i].handed.val = <<>>
     \/ SubSeq(tasks[i].handed.val, 1, Len(ErrorMarker)) = ErrorMarker

NoNewlines(t) == LET NotNewline(c) == c # chNewline IN SelectSeq(t, NotNewline)

\* C16: when the save step is handed no responses or responses beginning
\* with the error marker, it ends in an error whose message carries the
\* payload (its line break taken out), no file is written and no report
\* printed for the record, and no request is sent again.
C16_EngineErrorSurfaced ==
  \A i \in TaskIds :
    HandedBad(i) =>
      /\ tasks[i].outcome = "failed"
      /\ \E l \in LogsOf(i, "error") :
           tasks[i].handed.val # <<>> =>
             NoNewlines(l.text) = NoNewlines(tasks[i].handed.val)
      /\ {f \in disk : f.task = i} = {}
      /\ LogsOf(i, "report") = {}
      /\ LogsOf(i, "generated") = {}
      /\ Cardinality(RequestsOf(i)) = IF call.jsonGiven THEN 0 ELSE 1

\* The save step has been handed an error object for one record and no
\* responses for another.
C16_Witness ==
  \E i, j \in TaskIds :
    /\ HandedBad(i)
    /\ tasks[i].handed.val # <<>>
    /\ HandedBad(j)
    /\ tasks[j].handed.val = <<>>

\* The revisit request of task i got no response.
FailedRevisit(i) == LogsOf(i, "revisit error") # {}

\* Two requests differ in no field but the visit budget and analyzeTurns.
SameButVisitsAndTurns(a, b) ==
  /\ DOMAIN a = DOMAIN b
  /\ \A k \in DOMAIN a \ {"maxVisits", "analyzeTurns"} : a[k] = b[k]

\* C21: when the first engine call returned responses and the revisit call
\* returns none, nothing is merged, the record is saved with the first
\* responses unchanged, the revisit request differs from the first request
\* only in its visit budget and analyzeTurns, and the first request object
\* is as it was sent.
C21_FailedRevisitKeepsFirst ==
  \A i \in TaskIds :
    FailedRevisit(i) =>
      /\ tasks[i].first # <<>>
      /\ tasks[i].settled = "null"
      /\ tasks[i].newResponses = <<>>
      /\ \E a, b \in RequestsOf(i) :
           /\ a < b
           /\ RequestsOf(i) = {a, b}
           /\ sent[a].query = tasks[i].query
           /\ sent[a].query = sgfToKataGoAnalysisQuery(call.paths[i].chain, BaseOpts, call.now)
           /\ SameButVisitsAndTurns(sent[a].query, sent[b].query)
           /\ sent[b].query["maxVisits"] = call.revisit
      /\ LogsOf(i, "error") = {}
      /\ tasks[i].pc = "done" =>
           /\ tasks[i].outcome = "saved"
           /\ tasks[i].handed = [given |-> TRUE, val |-> tasks[i].first]
           /\ \E f \in disk : f.task = i
           /\ \A f \in disk : f.task = i => f.responses = tasks[i].first

\* A record saved, side-car JSON included, with its first responses after
\* its revisit request, of another budget and other turns, got no response.
C21_Witness ==
  \E i \in TaskIds :
    /\ FailedRevisit(i)
    /\ tasks[i].pc = "done"
    /\ tasks[i].outcome = "saved"
    /\ call.saveGiven
    /\ Cardinality({f \in disk : f.task = i}) = 2
    /\ \E b \in RequestsOf(i) :
         /\ sent[b].query["maxVisits"] = RevisitVisits
         /\ sent[b].query["analyzeTurns"] # tasks[i].query["analyzeTurns"]
         /\ tasks[i].query["maxVisits"] # RevisitVisits

====
